---- MODULE Spec2Model ----
(***************************************************************************)
(* Authentication and session establishment of body-tracker:               *)
(*   - server: JWT issuance / verification and the auth middlewares        *)
(*   - server: the Authorization-Code + PKCE exchange endpoint             *)
(*   - client: the callback coordinator (handleAuthCallback)               *)
(*   - client: the Session Store (authStorage)                             *)
(*   - client: the session reconciler (useAuthState, AuthProvider)         *)
(*   - client: the PKCE helpers (generatePkcePair, buildAuthorizationUrl)  *)
(***************************************************************************)
EXTENDS Integers, Sequences, FiniteSets, TLC

VARIABLES
    now,        \* server clock, seconds (Math.floor(Date.now() / 1000))
    issued,     \* AppJwts signed by generateJWT so far
    req,        \* the last request served by a middleware, and its outcome
    users,      \* rows of the users table
    clockMs,    \* server clock, milliseconds (Date.now())
    ex,         \* POST /auth/google/code requests in flight, one per slot
    sessions,   \* {user, token} bodies answered by the exchange endpoint
    started,    \* number of exchange requests received
    sessionVerifier,    \* sessionStorage['pkce_verifier'] of the browser tab
    store,      \* localStorage: the Session Store's token, user and expiry keys
    cb,         \* invocations of handleAuthCallback, one per slot
    sent,       \* requests sent to POST /auth/google/code, in order
    logins,     \* number of startPkceLogin calls
    clientNow,  \* browser clock, milliseconds (Date.now())
    ret,        \* the last Session Store operation and what it returned
    actualState,        \* useAuthState: the authoritative AuthState
    optimisticUpdate,   \* useOptimistic: the pending optimistic updates
    reval,      \* initializeAuthState calls and their revalidation, per slot
    loginCall,  \* the last login() call of the AuthProvider
    reloads,    \* number of page reloads
    logoutCall, \* the last logout() call of the AuthProvider
    mounted,    \* the AuthProvider is mounted
    protectedCall,  \* the last fetchWithAuth call of the page
    pkce        \* the last PkcePair generated and authorization URL built

vars == <<now, issued, req, users, clockMs, ex, sessions, started,
          sessionVerifier, store, cb, sent, logins, clientNow, ret,
          actualState, optimisticUpdate, reval, loginCall, reloads,
          logoutCall, mounted, protectedCall, pkce>>

mwVars == <<now, issued, req>>
exVars == <<users, clockMs, ex, sessions, started>>
cbVars == <<sessionVerifier, store, cb, sent, logins>>
stVars == <<clientNow, ret>>
rcVars == <<actualState, optimisticUpdate, reval, loginCall, reloads,
            logoutCall, mounted, protectedCall>>

\* the variables outside each subsystem
pkVars == <<pkce>>
beyondMw == <<exVars, cbVars, stVars, rcVars, pkVars>>
beyondEx == <<cbVars, stVars, rcVars, pkVars>>
beyondCb == <<mwVars, exVars, stVars, rcVars, pkVars>>
beyondSt == <<mwVars, exVars, sessionVerifier, cb, sent, logins, rcVars, pkVars>>
beyondRc == <<mwVars, exVars, sessionVerifier, sent, logins, stVars, pkVars>>
beyondPk == <<mwVars, exVars, cbVars, stVars, rcVars>>

(***************************************************************************)
(* Bounds                                                                  *)
(***************************************************************************)
MaxTicks == 3       \* number of clock steps
MaxIssued == 2      \* number of AppJwts issued
MaxExchanges == 3   \* number of exchange requests received
MaxMs == 1          \* number of millisecond steps of Date.now()
MaxLogins == 2      \* number of startPkceLogin calls
MaxSent == 3        \* number of exchange requests the client sends
MaxExpiry == 2      \* latest expiresAt a session is saved with
MaxClientTicks == 3 \* number of steps of the browser clock
MaxReloads == 2     \* number of page reloads

(***************************************************************************)
(* Program constants                                                       *)
(***************************************************************************)
TokenTTL == 2592000         \* 60 * 60 * 24 * 30
TickStep == TokenTTL \div 2  \* the clock advances by half a token lifetime
JWT_SECRET == "jwt-secret"  \* env.JWT_SECRET
Issuer == "body-tracker"
Audience == "body-tracker-users"
Undefined == "undefined"

(***************************************************************************)
(* Users known to the application (AuthUser: id, email, googleId)          *)
(***************************************************************************)
AuthUsers ==
    { [id |-> "u1", email |-> "a@example.com", googleId |-> "g1"],
      [id |-> "u2", email |-> "b@example.com", googleId |-> "g2"] }

(***************************************************************************)
(* Tokens.  An HS256 signature is the pair (key, signed payload); a token  *)
(* is its payload and its signature.  form distinguishes the empty string, *)
(* a string that is no JWT, and a three-part JWT.                          *)
(***************************************************************************)
NoPayload ==
    [userId |-> Undefined, email |-> Undefined, googleId |-> Undefined,
     iss |-> Undefined, aud |-> Undefined, exp |-> 0]

Sign(payload, key) == [key |-> key, over |-> payload]

NoSig == Sign(NoPayload, "")

EmptyToken == [form |-> "empty", payload |-> NoPayload, sig |-> NoSig]

MalformedToken == [form |-> "malformed", payload |-> NoPayload, sig |-> NoSig]

\* hono/jwt sign(payload, secret)
sign(payload, secret) ==
    [form |-> "jwt", payload |-> payload, sig |-> Sign(payload, secret)]

\* generateJWT(user, jwtSecret) evaluated at clock t
generateJWT(user, jwtSecret, t) ==
    sign([userId |-> user.id, email |-> user.email, googleId |-> user.googleId,
          iss |-> Issuer, aud |-> Audience, exp |-> t + TokenTTL],
         jwtSecret)

\* the token with its last character altered: the signature no longer matches
Tamper(token) == [token EXCEPT !.sig.key = "altered"]

(***************************************************************************)
(* hono/jwt verify(token, secret) with no options: the token must decode,  *)
(* exp must lie in the future, the signature must match.  Issuer and       *)
(* audience are compared only when options name them; verifyJWT passes     *)
(* none.  The result is the payload or the name of the error thrown.       *)
(***************************************************************************)
verify(token, secret, t) ==
    IF token.form # "jwt"
        THEN [ok |-> FALSE, payload |-> NoPayload, error |-> "JwtTokenInvalid"]
    ELSE IF token.payload.exp <= t
        THEN [ok |-> FALSE, payload |-> NoPayload, error |-> "JwtTokenExpired"]
    ELSE IF token.sig # Sign(token.payload, secret)
        THEN [ok |-> FALSE, payload |-> NoPayload,
              error |-> "JwtTokenSignatureMismatched"]
    ELSE [ok |-> TRUE, payload |-> token.payload, error |-> ""]

(***************************************************************************)
(* verifyJWT is an async function: what the caller receives is a Promise,  *)
(* which later fulfils with the payload or rejects.  Every error of verify *)
(* is rethrown as 'Token verification failed'.                             *)
(***************************************************************************)
verifyJWT(token, jwtSecret, t) ==
    IF jwtSecret = ""
        THEN [type |-> "Promise", state |-> "rejected", value |-> NoPayload,
              reason |-> "JWT_SECRET environment variable is not set"]
    ELSE LET r == verify(token, jwtSecret, t) IN
         IF r.ok
            THEN [type |-> "Promise", state |-> "fulfilled",
                  value |-> r.payload, reason |-> ""]
            ELSE [type |-> "Promise", state |-> "rejected",
                  value |-> NoPayload, reason |-> "Token verification failed"]

\* JavaScript typeof of the values the middleware handles
TypeOf(v) == IF v.type = "string" THEN "string" ELSE "object"

\* property access on a request-scoped value: a Promise has no own userId/email
Prop(v, f) == IF v.type = "payload" THEN v.value[f] ELSE Undefined

NoUser == [type |-> "undefined", state |-> "", value |-> NoPayload, reason |-> ""]

(***************************************************************************)
(* Authorization headers                                                   *)
(***************************************************************************)
NoHeader == [present |-> FALSE, prefix |-> "", token |-> EmptyToken]

Header(prefix, token) == [present |-> TRUE, prefix |-> prefix, token |-> token]

\* authHeader.startsWith('Bearer ')
StartsWithBearer(h) == h.present /\ h.prefix = "Bearer "

\* tokens a client can present: issued ones, altered ones, tokens signed with
\* another key, tokens signed with the server secret for another issuer or
\* audience, a non-JWT string, and the empty string
ForgedTokens(t) ==
    { generateJWT(u, "attacker-key", t) : u \in AuthUsers }

ForeignTokens(t) ==
    { sign([generateJWT(u, JWT_SECRET, t).payload EXCEPT !.iss = "other-app"],
           JWT_SECRET) : u \in AuthUsers }
    \cup
    { sign([generateJWT(u, JWT_SECRET, t).payload EXCEPT !.aud = "other-users"],
           JWT_SECRET) : u \in AuthUsers }

RequestTokens ==
    issued \cup { Tamper(tok) : tok \in issued }
           \cup ForgedTokens(now) \cup ForeignTokens(now)
           \cup {MalformedToken, EmptyToken}

Headers ==
    {NoHeader} \cup
    { Header(p, tok) : p \in {"Bearer ", "Basic ", "bearer "}, tok \in RequestTokens }

(***************************************************************************)
(* authMiddleware(c, next).  The result records the response status and    *)
(* error body (status 0: the response is the handler's), how often next    *)
(* ran, the value stored under 'user', and what the handler reads through  *)
(* getAuthenticatedUser; at is the clock when the request was served.      *)
(***************************************************************************)
Reject(g, h, t, status, error) ==
    [guard |-> g, header |-> h, at |-> t, status |-> status, error |-> error, nextCalls |-> 0,
     user |-> NoUser, handlerUserId |-> Undefined, handlerEmail |-> Undefined]

\* getAuthenticatedUser(c): the stored value, whatever it is, when truthy
getAuthenticatedUser(user) == user

Proceed(g, h, t, user) ==
    [guard |-> g, header |-> h, at |-> t, status |-> 0, error |-> "", nextCalls |-> 1, user |-> user,
     handlerUserId |-> Prop(getAuthenticatedUser(user), "userId"),
     handlerEmail |-> Prop(getAuthenticatedUser(user), "email")]

authMiddleware(h, jwtSecret, t) ==
    IF ~h.present
        THEN Reject("authMiddleware", h, t, 401, "Authorization header required")
    ELSE IF ~StartsWithBearer(h)
        THEN Reject("authMiddleware", h, t, 401, "Bearer token required")
    ELSE IF h.token.form = "empty"
        THEN Reject("authMiddleware", h, t, 401, "Token is empty")
    ELSE LET decoded == verifyJWT(h.token, jwtSecret, t) IN   \* not awaited
         IF TypeOf(decoded) = "string"
            THEN Reject("authMiddleware", h, t, 401, "Invalid token format")
            ELSE Proceed("authMiddleware", h, t, decoded)

(***************************************************************************)
(* optionalAuthMiddleware(c, next): next always runs.                      *)
(***************************************************************************)
optionalAuthMiddleware(h, jwtSecret, t) ==
    IF StartsWithBearer(h) /\ h.token.form # "empty"
        THEN LET decoded == verifyJWT(h.token, jwtSecret, t) IN   \* not awaited
             IF TypeOf(decoded) # "string"
                THEN Proceed("optionalAuthMiddleware", h, t, decoded)
                ELSE Proceed("optionalAuthMiddleware", h, t, NoUser)
        ELSE Proceed("optionalAuthMiddleware", h, t, NoUser)

NoRequest == Reject("", NoHeader, 0, 0, "")

(***************************************************************************)
(* Code exchange endpoint: POST /auth/google/code                          *)
(***************************************************************************)
GOOGLE_CLIENT_ID == "client-id"          \* env.GOOGLE_CLIENT_ID
GOOGLE_CLIENT_SECRET == "client-secret"  \* env.GOOGLE_CLIENT_SECRET

\* the two request slots that can be in flight together
Requests == {"r1", "r2"}

\* A redirect URI is the string  scheme "://" sub domain path ; sub is the
\* part of the host before the domain, a sequence of characters.
Uri(scheme, sub, domain, path) ==
    [scheme |-> scheme, sub |-> sub, domain |-> domain, path |-> path]

EmptyUri == Uri("", <<>>, "", "")

\* the character class [a-z0-9-]
LowerAlnumDash ==
    { "a", "b", "c", "d", "e", "f", "g", "h", "i", "j", "k", "l", "m",
      "n", "o", "p", "q", "r", "s", "t", "u", "v", "w", "x", "y", "z",
      "0", "1", "2", "3", "4", "5", "6", "7", "8", "9", "-" }

\* /^http:\/\/localhost:3000\/(gsi-test\.html|auth\/callback)$/
MatchesLocalhost(u) ==
    /\ u.scheme = "http" /\ u.sub = <<>> /\ u.domain = "localhost:3000"
    /\ u.path \in {"/gsi-test.html", "/auth/callback"}

\* /^https:\/\/body-tracker\.pages\.dev\/auth\/callback$/
MatchesProduction(u) ==
    /\ u.scheme = "https" /\ u.sub = <<>> /\ u.domain = "body-tracker.pages.dev"
    /\ u.path = "/auth/callback"

\* /^https:\/\/[a-z0-9-]+\.body-tracker\.pages\.dev\/auth\/callback$/
\* (sub ends with the '.' that precedes the domain)
MatchesPreview(u) ==
    /\ u.scheme = "https" /\ u.domain = "body-tracker.pages.dev"
    /\ u.path = "/auth/callback"
    /\ Len(u.sub) >= 2
    /\ u.sub[Len(u.sub)] = "."
    /\ \A i \in 1..(Len(u.sub) - 1) : u.sub[i] \in LowerAlnumDash

\* allowedOrigins.some((pattern) => pattern.test(redirectUri))
AllowedRedirect(u) ==
    MatchesLocalhost(u) \/ MatchesProduction(u) \/ MatchesPreview(u)

RedirectUris ==
    { Uri("http", <<>>, "localhost:3000", "/auth/callback"),
      Uri("https", <<>>, "body-tracker.pages.dev", "/auth/callback"),
      Uri("https", <<"p", "r", "-", "1", ".">>, "body-tracker.pages.dev",
          "/auth/callback"),
      \* https://evil.com/.body-tracker.pages.dev/auth/callback
      Uri("https", <<"e", "v", "i", "l", ".", "c", "o", "m", "/", ".">>,
          "body-tracker.pages.dev", "/auth/callback"),
      \* https://PR.body-tracker.pages.dev/auth/callback
      Uri("https", <<"P", "R", ".">>, "body-tracker.pages.dev", "/auth/callback"),
      \* http instead of https
      Uri("http", <<>>, "body-tracker.pages.dev", "/auth/callback"),
      \* a path that continues after /auth/callback
      Uri("https", <<>>, "body-tracker.pages.dev", "/auth/callback/../x") }

\* request bodies: complete ones, and one with each field empty
Bodies ==
    { [code |-> "c1", codeVerifier |-> "v1", redirectUri |-> u] : u \in RedirectUris }
    \cup
    { [code |-> "", codeVerifier |-> "v1",
       redirectUri |-> Uri("http", <<>>, "localhost:3000", "/auth/callback")],
      [code |-> "c1", codeVerifier |-> "",
       redirectUri |-> Uri("http", <<>>, "localhost:3000", "/auth/callback")],
      [code |-> "c1", codeVerifier |-> "v1", redirectUri |-> EmptyUri] }

NoBody == [code |-> "", codeVerifier |-> "", redirectUri |-> EmptyUri]

\* validator('json', ...) of the route: the error it answers with, "" if none
ValidateBody(body) ==
    IF body.code = "" THEN "code required"
    ELSE IF body.codeVerifier = "" THEN "codeVerifier required"
    ELSE IF body.redirectUri = EmptyUri THEN "redirectUri required"
    ELSE ""

exchangeCodeForIdToken_NoAllowList(body, clientId, clientSecret) ==
    IF clientId = "" \/ clientSecret = ""
        THEN "Google OAuth client credentials not set"
    ELSE "fetch"

\* exchangeCodeForIdToken up to its fetch: the error thrown, or "fetch" when
\* the request to the token endpoint is sent
exchangeCodeForIdToken(body, clientId, clientSecret) ==
    IF clientId = "" \/ clientSecret = ""
        THEN "Google OAuth client credentials not set"
    ELSE IF ~AllowedRedirect(body.redirectUri)
        THEN "Invalid redirectUri"
    ELSE "fetch"

\* answers of the provider's token endpoint
TokenResponses == {"network error", "not ok", "no id_token", "ok"}

\* answers of the provider's tokeninfo endpoint: the raw email_verified is a
\* boolean or a string
NoTokenInfo ==
    [ok |-> FALSE, aud |-> "", sub |-> "", email |-> Undefined,
     email_verified |-> ""]

TokenInfos ==
    { NoTokenInfo,
      [ok |-> TRUE, aud |-> "other-client", sub |-> "g1",
       email |-> "a@example.com", email_verified |-> "bool:true"] }
    \cup
    { [ok |-> TRUE, aud |-> GOOGLE_CLIENT_ID, sub |-> "g1",
       email |-> "a@example.com", email_verified |-> v] :
          v \in {"bool:true", "str:true", "bool:false", "str:false"} }
    \cup
    { [ok |-> TRUE, aud |-> GOOGLE_CLIENT_ID, sub |-> "g2",
       email |-> Undefined, email_verified |-> v] :
          v \in {"bool:true", "bool:false"} }

EmailVerified_Truthy(raw) == raw # "bool:false"

\* payload.email_verified === 'true' || payload.email_verified === true
EmailVerified(raw) == raw = "str:true" \/ raw = "bool:true"

\* verifyGoogleToken after its fetch: the error thrown ("" if none) and the
\* GoogleTokenPayload returned
verifyGoogleToken(info, clientId) ==
    IF ~info.ok \/ info.aud # clientId
        THEN [error |-> "Invalid Google token", sub |-> "", email |-> Undefined,
              email_verified |-> FALSE]
        ELSE [error |-> "", sub |-> info.sub,
              email |-> IF info.email = Undefined THEN "no email" ELSE info.email,
              email_verified |-> EmailVerified(info.email_verified)]

findByEmail_WrongColumn(table, email) == { row \in table : row.username = email }

\* db.select().from(users).where(eq(users.email, email)).limit(1)
findByEmail(table, email) == { row \in table : row.email = email }

\* username and email are UNIQUE in the users table
ViolatesUnique(table, row) ==
    \E r \in table : r.email = row.email \/ r.username = row.username

IdPool == <<"u1", "u2", "u3">>

\* the id the database generates for a new row
NewId(table) == IdPool[Cardinality(table) + 1]

\* `user_${Date.now()}`
Username(ms) == <<"user_", ms>>

Idle ==
    [pc |-> "idle", body |-> NoBody, info |-> NoTokenInfo, email |-> Undefined,
     sub |-> "", username |-> Username(0), found |-> "", tokenCalls |-> 0,
     focCalls |-> 0, inserted |-> FALSE, thrown |-> "", status |-> 0, error |-> "",
     userId |-> "", token |-> EmptyToken]

\* c.json({ error }, status)
Fail(r, status, error) ==
    [r EXCEPT !.pc = "done", !.status = status, !.error = error]

\* the catch clause of the handler; thrown is the error it caught and logged
CodeFlowFailed(r, thrown) ==
    [Fail(r, 500, "Code flow authentication failed") EXCEPT !.thrown = thrown]

\* c.json({ user, token, flow: 'code' })
Succeed(r, id, token) ==
    [r EXCEPT !.pc = "done", !.status = 200, !.userId = id, !.token = token]

InFlight(r) == r.pc \notin {"idle", "done"}

\* The request arrives: the validator, then exchangeCodeForIdToken up to the
\* request it sends to the token endpoint.
Receive(p, body) ==
    /\ ~InFlight(ex[p])
    /\ started < MaxExchanges
    /\ started' = started + 1
    /\ LET r == [Idle EXCEPT !.body = body]
           invalid == ValidateBody(body)
           step == exchangeCodeForIdToken(body, GOOGLE_CLIENT_ID,
                                          GOOGLE_CLIENT_SECRET)
       IN  ex' = [ex EXCEPT ![p] =
                    IF invalid # "" THEN Fail(r, 400, invalid)
                    ELSE IF step # "fetch" THEN CodeFlowFailed(r, step)
                    ELSE [r EXCEPT !.pc = "token", !.tokenCalls = 1]]
    /\ UNCHANGED <<users, clockMs, sessions, mwVars, beyondEx>>

\* The token endpoint answers; with an id_token, verifyGoogleToken sends its
\* request to the tokeninfo endpoint.
TokenResponse(p, answer) ==
    /\ ex[p].pc = "token"
    /\ ex' = [ex EXCEPT ![p] =
                IF answer # "ok" THEN CodeFlowFailed(@, "Code exchange failed")
                ELSE [@ EXCEPT !.pc = "tokeninfo"]]
    /\ UNCHANGED <<users, clockMs, sessions, started, mwVars, beyondEx>>

\* The tokeninfo endpoint answers; verifyGoogleToken returns, the handler
\* checks email_verified and findOrCreateUser sends its select.
TokenInfoResponse(p, info) ==
    /\ ex[p].pc = "tokeninfo"
    /\ LET payload == verifyGoogleToken(info, GOOGLE_CLIENT_ID)
           r == [ex[p] EXCEPT !.info = info]
       IN  ex' = [ex EXCEPT ![p] =
                    IF payload.error # "" THEN CodeFlowFailed(r, payload.error)
                    ELSE IF ~payload.email_verified
                        THEN Fail(r, 400, "Email not verified by Google")
                    ELSE [r EXCEPT !.pc = "select", !.email = payload.email,
                                   !.sub = payload.sub, !.focCalls = 1]]
    /\ UNCHANGED <<users, clockMs, sessions, started, mwVars, beyondEx>>

\* generateJWT and the response of the handler for the resolved user
Answer(p, r, id) ==
    LET token == generateJWT([id |-> id, email |-> r.email, googleId |-> r.sub],
                             JWT_SECRET, now)
    IN  /\ ex' = [ex EXCEPT ![p] = Succeed(r, id, token)]
        /\ issued' = issued \cup {token}
        /\ sessions' = sessions \cup {[email |-> r.email, userId |-> id, token |-> token]}

\* The select of findOrCreateUser returns (or the database fails): an
\* existing user is answered, otherwise the insert is sent.
SelectDone(p, dbOk) ==
    /\ ex[p].pc = "select"
    /\ LET existingUsers == findByEmail(users, ex[p].email) IN
       IF ~dbOk
          THEN /\ ex' = [ex EXCEPT ![p] = CodeFlowFailed(@, "database unavailable")]
               /\ UNCHANGED <<issued, sessions>>
       ELSE IF existingUsers # {}
          THEN \E user \in existingUsers :
                  Answer(p, [ex[p] EXCEPT !.found = "yes"], user.id)
       ELSE /\ ex' = [ex EXCEPT ![p] = [@ EXCEPT !.pc = "insert", !.found = "no",
                                           !.username = Username(clockMs)]]
            /\ UNCHANGED <<issued, sessions>>
    /\ UNCHANGED <<users, clockMs, started, now, req, beyondEx>>

\* The insert of findOrCreateUser returns: the new row, or an error when the
\* database fails or a UNIQUE constraint is violated.
InsertDone(p, dbOk) ==
    /\ ex[p].pc = "insert"
    /\ LET newUser == [id |-> NewId(users), email |-> ex[p].email,
                       username |-> ex[p].username]
       IN  IF ~dbOk
              THEN /\ ex' = [ex EXCEPT ![p] = CodeFlowFailed(@, "database unavailable")]
                   /\ UNCHANGED <<users, issued, sessions>>
           ELSE IF ViolatesUnique(users, newUser)
              THEN /\ ex' = [ex EXCEPT ![p] = CodeFlowFailed(@, "unique violation")]
                   /\ UNCHANGED <<users, issued, sessions>>
              ELSE /\ users' = users \cup {newUser}
                   /\ Answer(p, [ex[p] EXCEPT !.inserted = TRUE], newUser.id)
    /\ UNCHANGED <<clockMs, started, now, req, beyondEx>>

\* Date.now() advances
TickMs ==
    /\ clockMs < MaxMs
    /\ clockMs' = clockMs + 1
    /\ UNCHANGED <<users, ex, sessions, started, mwVars, beyondEx>>

(***************************************************************************)
(* Requests to the token service and the middlewares                       *)
(***************************************************************************)
\* the clock advances
Tick ==
    /\ now < MaxTicks * TickStep
    /\ now' = now + TickStep
    /\ UNCHANGED <<issued, req, beyondMw>>

\* the exchange endpoint issues an AppJwt for a user
IssueToken ==
    /\ Cardinality(issued) < MaxIssued
    /\ \E u \in AuthUsers : issued' = issued \cup {generateJWT(u, JWT_SECRET, now)}
    /\ UNCHANGED <<now, req, beyondMw>>

\* a request to a route guarded by authMiddleware
ProtectedRequest ==
    /\ \E h \in Headers : req' = authMiddleware(h, JWT_SECRET, now)
    /\ UNCHANGED <<now, issued, beyondMw>>

\* a request to a route guarded by optionalAuthMiddleware
OptionalRequest ==
    /\ \E h \in Headers : req' = optionalAuthMiddleware(h, JWT_SECRET, now)
    /\ UNCHANGED <<now, issued, beyondMw>>

(***************************************************************************)
(* Client: Session Store (authStorage) and the callback coordinator        *)
(***************************************************************************)
NoVerifier == <<>>  \* sessionStorage.getItem(PKCE_VERIFIER_KEY) === null
NoToken == ""       \* no token key in localStorage, or an empty one
NoUserData == ""    \* no user key in localStorage, or an empty one
NoExpiryKey == ""   \* no expiry key in localStorage, or an empty one
NoExpiry == 0       \* expiresAt undefined (or 0, which is as falsy)
NaN == -1           \* Number.parseInt of a string that is no number
Null == "<null>"    \* url.searchParams.get(...) === null

\* the two invocations of handleAuthCallback that can be pending together
Invocations == {"i1", "i2"}

\* User objects with a string id and a string email
Users == {"alice", "bob"}

\* what JSON text in the user key can denote: Users and an object that has
\* no email
Objects == Users \cup {"noEmail"}

isUser(value) == value \in Users

JSONstringify(value) == "{" \o value \o "}"

SyntaxError == "<SyntaxError>"

\* JSON.parse(userData): the object denoted, or SyntaxError when it throws
JSONparse(userData) ==
    IF \E o \in Objects : JSONstringify(o) = userData
       THEN CHOOSE o \in Objects : JSONstringify(o) = userData
       ELSE SyntaxError

\* Number.parseInt(expiresAtStr, 10)
parseInt(str) ==
    IF \E n \in 0..MaxExpiry : ToString(n) = str
       THEN CHOOSE n \in 0..MaxExpiry : ToString(n) = str
       ELSE NaN

EmptyStore == [token |-> NoToken, user |-> NoUserData, expiresAt |-> NoExpiryKey]

getToken(st) == IF st.token # NoToken THEN st.token ELSE Null

removeToken(st) == [st EXCEPT !.token = NoToken]

removeUser(st) == [st EXCEPT !.user = NoUserData]

\* getUser(): the user read (or Null) and the store afterwards; data that
\* does not parse to a User is removed
getUser(st) ==
    IF st.user = NoUserData THEN [store |-> st, value |-> Null]
    ELSE LET parsedUser == JSONparse(st.user) IN
         IF parsedUser # SyntaxError /\ isUser(parsedUser)
            THEN [store |-> st, value |-> parsedUser]
            ELSE [store |-> removeUser(st), value |-> Null]

\* clearAll(): removeToken, removeUser, remove the expiry key
clearAll(st) ==
    [removeUser(removeToken(st)) EXCEPT !.expiresAt = NoExpiryKey]

saveAuthData_NoCleanup(st, data, failAt) ==
    IF failAt = "token"
        THEN [store |-> st, error |-> "Failed to save authentication token"]
    ELSE IF failAt = "user"
        THEN [store |-> [st EXCEPT !.token = data.token],
              error |-> "Failed to save user information"]
    ELSE LET saved == [st EXCEPT !.token = data.token,
                                 !.user = JSONstringify(data.user)] IN
         IF data.expiresAt = NoExpiry
            THEN [store |-> saved, error |-> ""]
         ELSE IF failAt = "expiry"
            THEN [store |-> saved, error |-> "QuotaExceededError"]
         ELSE [store |-> [saved EXCEPT !.expiresAt = ToString(data.expiresAt)],
               error |-> ""]

\* saveAuthData(data).  failAt names the localStorage.setItem that throws
\* ("" when none does).  The result is the store afterwards and the error
\* rethrown ("" when the save returns).
saveAuthData(st, data, failAt) ==
    IF failAt = "token"
        THEN [store |-> clearAll(st), error |-> "Failed to save authentication token"]
    ELSE IF failAt = "user"
        THEN [store |-> clearAll([st EXCEPT !.token = data.token]),
              error |-> "Failed to save user information"]
    ELSE LET saved == [st EXCEPT !.token = data.token,
                                 !.user = JSONstringify(data.user)] IN
         IF data.expiresAt = NoExpiry
            THEN [store |-> saved, error |-> ""]
         ELSE IF failAt = "expiry"
            THEN [store |-> clearAll(saved), error |-> "QuotaExceededError"]
         ELSE [store |-> [saved EXCEPT !.expiresAt = ToString(data.expiresAt)],
               error |-> ""]

SaveFailures == {"", "token", "user", "expiry"}

\* getAuthData() === null
NoAuthData == [token |-> NoToken, user |-> Null, expiresAt |-> NoExpiry]

getAuthData_NoHealing(st) ==
    LET token == getToken(st)
        read == getUser(st)
    IN  IF token = Null \/ read.value = Null
           THEN [store |-> read.store, value |-> NoAuthData]
           ELSE [store |-> read.store,
                 value |-> [token |-> token, user |-> read.value,
                            expiresAt |-> IF read.store.expiresAt # NoExpiryKey
                                             THEN parseInt(read.store.expiresAt)
                                             ELSE NoExpiry]]

\* getAuthData(): the record read (or NoAuthData) and the store afterwards;
\* a partial record is cleared
getAuthData(st) ==
    LET token == getToken(st)
        read == getUser(st)
    IN  IF token = Null \/ read.value = Null
           THEN [store |-> IF token # Null \/ read.value # Null
                              THEN clearAll(read.store) ELSE read.store,
                 value |-> NoAuthData]
           ELSE [store |-> read.store,
                 value |-> [token |-> token, user |-> read.value,
                            expiresAt |-> IF read.store.expiresAt # NoExpiryKey
                                             THEN parseInt(read.store.expiresAt)
                                             ELSE NoExpiry]]

\* hasValidAuthData(): the answer and the store afterwards
hasValidAuthData(st) ==
    LET authData == getAuthData(st) IN
    [store |-> authData.store, value |-> authData.value # NoAuthData]

\* isTokenValid() at Date.now() = t: the answer and the store afterwards
isTokenValid(st, t) ==
    LET authData == getAuthData(st) IN
    IF authData.value = NoAuthData
       THEN [store |-> authData.store, value |-> FALSE]
    ELSE IF /\ authData.value.expiresAt # NoExpiry
            /\ authData.value.expiresAt # NaN
            /\ t >= authData.value.expiresAt
       THEN [store |-> clearAll(authData.store), value |-> FALSE]
    ELSE [store |-> authData.store, value |-> TRUE]

\* the sessions handed to saveAuthData: each save has its own token and user
SaveData ==
    { [token |-> "T1", user |-> "alice", expiresAt |-> e] :
        e \in {NoExpiry} \cup 1..MaxExpiry }
    \cup { [token |-> "T2", user |-> "bob", expiresAt |-> e] :
        e \in {NoExpiry} \cup 1..MaxExpiry }

\* what other code of the origin can leave under the three keys
RawValues ==
    [token |-> {NoToken, "T1"},
     user |-> {NoUserData, JSONstringify("alice"), JSONstringify("noEmail"),
               "{oops"},
     expiresAt |-> {NoExpiryKey, "1", "0", "soon"}]

Returned(op, data, ok, error) ==
    [op |-> op, before |-> store, at |-> clientNow, data |-> data, ok |-> ok,
     error |-> error]

NoReturn ==
    [op |-> "", before |-> EmptyStore, at |-> 0, data |-> NoAuthData,
     ok |-> FALSE, error |-> ""]

\* authStorage.saveAuthData(data)
Save(data, failAt) ==
    /\ LET saved == saveAuthData(store, data, failAt) IN
       /\ store' = saved.store
       /\ ret' = Returned("saveAuthData", data, saved.error = "", saved.error)
    /\ UNCHANGED <<clientNow, beyondSt>>

\* authStorage.getAuthData()
Load ==
    /\ LET authData == getAuthData(store) IN
       /\ store' = authData.store
       /\ ret' = Returned("getAuthData", authData.value,
                          authData.value # NoAuthData, "")
    /\ UNCHANGED <<clientNow, beyondSt>>

\* authStorage.clearAll()
Clear ==
    /\ store' = clearAll(store)
    /\ ret' = Returned("clearAll", NoAuthData, TRUE, "")
    /\ UNCHANGED <<clientNow, beyondSt>>

\* authStorage.hasValidAuthData()
HasValidAuthData ==
    /\ LET valid == hasValidAuthData(store) IN
       /\ store' = valid.store
       /\ ret' = Returned("hasValidAuthData", NoAuthData, valid.value, "")
    /\ UNCHANGED <<clientNow, beyondSt>>

\* authStorage.isTokenValid()
IsTokenValid ==
    /\ LET valid == isTokenValid(store, clientNow) IN
       /\ store' = valid.store
       /\ ret' = Returned("isTokenValid", NoAuthData, valid.value, "")
    /\ UNCHANGED <<clientNow, beyondSt>>

\* other code writes one of the three keys directly
Inject(key, raw) ==
    /\ store' = [store EXCEPT ![key] = raw]
    /\ ret' = Returned("setItem", NoAuthData, TRUE, "")
    /\ UNCHANGED <<clientNow, beyondSt>>

\* the browser clock advances
TickClient ==
    /\ clientNow < MaxClientTicks
    /\ clientNow' = clientNow + 1
    /\ UNCHANGED <<store, ret, beyondSt>>

\* Result values
Ok == [ok |-> TRUE, code |-> "", message |-> "", cause |-> ""]

\* err(toAuthError(code, message, cause))
Err(code, message, cause) ==
    [ok |-> FALSE, code |-> code, message |-> message, cause |-> cause]

NoResult == [ok |-> FALSE, code |-> "", message |-> "", cause |-> ""]

\* callback URLs: the code and state query parameters
Urls ==
    { [code |-> c, state |-> s] :
        c \in {Null, "", "c1"}, s \in {Null, "login", "other"} }

NoUrl == [code |-> Null, state |-> Null]

\* the verifier generated by the n-th startPkceLogin
Verifier(n) == <<"verifier", n>>

\* what the exchange endpoint can answer to the client
ExchangeAnswers ==
    { [ok |-> TRUE, user |-> "alice", token |-> "T1", message |-> ""],
      [ok |-> TRUE, user |-> "bob", token |-> "T2", message |-> ""],
      [ok |-> FALSE, user |-> "", token |-> "",
       message |-> "Code flow authentication failed"],
      [ok |-> FALSE, user |-> "", token |-> "",
       message |-> "Network error during code exchange"] }

\* state !== 'login'
StateMismatch_AbsentOnly(url) == url.state = Null

StateMismatch(url) == url.state # "login"

\* !verifier
VerifierMissing_Never(verifier) == FALSE

VerifierMissing(verifier) == verifier = NoVerifier

handleAuthCallback_StateFirst(url, verifier) ==
    IF url.state # "login" THEN Err("STATE_MISMATCH", "state mismatch", "")
    ELSE IF url.code = Null \/ url.code = ""
        THEN Err("CODE_MISSING", "code missing", "")
    ELSE IF verifier = NoVerifier
        THEN Err("PKCE_VERIFIER_MISSING", "verifier missing (restart login)", "")
    ELSE NoResult

\* handleAuthCallback up to the exchange call: the Result returned, or
\* NoResult when the exchange request is sent
handleAuthCallback(url, verifier) ==
    IF url.code = Null \/ url.code = ""
        THEN Err("CODE_MISSING", "code missing", "")
    ELSE IF StateMismatch(url) THEN Err("STATE_MISMATCH", "state mismatch", "")
    ELSE IF VerifierMissing(verifier)
        THEN Err("PKCE_VERIFIER_MISSING", "verifier missing (restart login)", "")
    ELSE NoResult

\* no answer of the exchange endpoint yet
NoAnswer == [ok |-> FALSE, user |-> "", token |-> "", message |-> ""]

IdleInvocation ==
    [pc |-> "idle", url |-> NoUrl, verifier |-> NoVerifier,
     answer |-> NoAnswer, result |-> NoResult]

\* the catch clause of handleAuthCallback: e is the message of the error
\* caught, which is also kept as the cause
CodeExchangeFailed_Rethrow(e) ==
    [ok |-> FALSE, code |-> "", message |-> e, cause |-> e]

CodeExchangeFailed(e) ==
    Err("CODE_EXCHANGE_FAILED", IF e = "" THEN "code exchange failed" ELSE e, e)

AfterExchange_RemoveFirst(st, verifier, answer, failAt) ==
    IF ~answer.ok
       THEN [store |-> st, verifier |-> verifier,
             result |-> CodeExchangeFailed(answer.message)]
    ELSE LET saved == saveAuthData(st, [user |-> answer.user,
                                        token |-> answer.token,
                                        expiresAt |-> NoExpiry], failAt)
         IN  [store |-> saved.store, verifier |-> NoVerifier,
              result |-> IF saved.error = "" THEN Ok
                         ELSE CodeExchangeFailed(saved.error)]

\* handleAuthCallback from the settling of the exchange call to its return:
\* the store and the stashed verifier afterwards, and the Result returned
AfterExchange(st, verifier, answer, failAt) ==
    IF ~answer.ok
       THEN [store |-> st, verifier |-> verifier,
             result |-> CodeExchangeFailed(answer.message)]
    ELSE LET saved == saveAuthData(st, [user |-> answer.user,
                                        token |-> answer.token,
                                        expiresAt |-> NoExpiry], failAt)
         IN  IF saved.error = ""
                THEN [store |-> saved.store, verifier |-> NoVerifier,
                      result |-> Ok]
                ELSE [store |-> saved.store, verifier |-> verifier,
                      result |-> CodeExchangeFailed(saved.error)]

\* startPkceLogin: a fresh verifier is stashed and the browser navigates to
\* the provider, which ends whatever the page was running
startPkceLogin ==
    /\ logins < MaxLogins
    /\ logins' = logins + 1
    /\ sessionVerifier' = Verifier(logins + 1)
    /\ cb' = [i \in Invocations |-> IdleInvocation]
    /\ UNCHANGED <<store, sent, beyondCb>>

\* handleAuthCallback(currentUrl) is called and runs to its first await or
\* to its return
CallbackInvoked(i, url) ==
    /\ cb[i].pc \in {"idle", "returned"}
    /\ LET early == handleAuthCallback(url, sessionVerifier) IN
       IF early # NoResult
          THEN /\ cb' = [cb EXCEPT ![i] =
                           [pc |-> "returned", url |-> url,
                            verifier |-> NoVerifier, answer |-> NoAnswer,
                            result |-> early]]
               /\ UNCHANGED sent
          ELSE /\ Len(sent) < MaxSent
               /\ cb' = [cb EXCEPT ![i] =
                           [pc |-> "exchange", url |-> url,
                            verifier |-> sessionVerifier, answer |-> NoAnswer,
                            result |-> NoResult]]
               /\ sent' = Append(sent, [code |-> url.code,
                                        codeVerifier |-> sessionVerifier])
    /\ UNCHANGED <<sessionVerifier, store, logins, beyondCb>>

\* exchangeAuthorizationCode settles and handleAuthCallback runs to its
\* return: save the session and remove the verifier, or report the failure
ExchangeSettled(i, answer, failAt) ==
    /\ cb[i].pc = "exchange"
    /\ LET after == AfterExchange(store, sessionVerifier, answer, failAt) IN
       /\ store' = after.store
       /\ sessionVerifier' = after.verifier
       /\ cb' = [cb EXCEPT ![i].pc = "returned", ![i].answer = answer,
                           ![i].result = after.result]
    /\ UNCHANGED <<sent, logins, beyondCb>>

(***************************************************************************)
(* Client: the session reconciler (useAuthState and AuthProvider).         *)
(* useOptimistic(actualState, reducer) shows actualState with the pending  *)
(* optimistic updates applied by the reducer.  React keeps an optimistic   *)
(* update while an async transition is pending and reverts it when none    *)
(* is: every async transition here is a revalidation started by            *)
(* initializeAuthState.  The reducer spreads the update over the state, so *)
(* the pending updates are kept composed into one: the fields they set     *)
(* and the last value set for each.                                        *)
(***************************************************************************)
AuthStateFields == {"user", "isAuthenticated", "isLoading", "token"}

\* useState initial value
InitialAuthState ==
    [user |-> Null, isAuthenticated |-> FALSE, isLoading |-> TRUE, token |-> Null]

\* optimisticLoginState, validatedState, loggedInState
LoggedIn(user, token) ==
    [user |-> user, isAuthenticated |-> TRUE, isLoading |-> FALSE, token |-> token]

\* loggedOutState, errorState
LoggedOut ==
    [user |-> Null, isAuthenticated |-> FALSE, isLoading |-> FALSE, token |-> Null]

\* a Partial<AuthState>: the fields it sets (has) and their values (val)
All(state) == [has |-> AuthStateFields, val |-> state]

\* { isLoading: loading }
LoadingUpdate(loading) ==
    [has |-> {"isLoading"}, val |-> [LoggedOut EXCEPT !.isLoading = loading]]

NoUpdate == [has |-> {}, val |-> LoggedOut]

\* { ...state, ...update }
Spread(state, update) ==
    [f \in AuthStateFields |->
        IF f \in update.has THEN update.val[f] ELSE state[f]]

updateAuthState_Ignored(prev, newState) == prev

\* setActualState((prev) => ({ ...prev, ...newState }))
updateAuthState(prev, newState) == Spread(prev, newState)

setOptimisticState_Dropped(pending, update) == pending

\* setOptimisticState(update): one more pending optimistic update
setOptimisticState(pending, update) ==
    [has |-> pending.has \cup update.has, val |-> Spread(pending.val, update)]

\* the state useOptimistic returns
optimisticState == Spread(actualState, optimisticUpdate)

\* the slots of initializeAuthState calls of one page load (the mount
\* effect, which StrictMode runs twice)
Revalidations == {"v1", "v2"}

\* an async transition is pending
ActionPending(rv) == \E v \in Revalidations : rv[v].pc = "pending"

\* React reverts the optimistic updates once no async transition is pending
Revert(pending, rv) == IF ActionPending(rv) THEN pending ELSE NoUpdate

\* the user GET /auth/me answers with: as stored, or with fresher fields
Fresh(user) == user \o "*"

NoMe == [ok |-> FALSE, user |-> "", message |-> ""]

\* what getCurrentUser(token) settles with for the token of a user
MeAnswers(user) ==
    { [ok |-> TRUE, user |-> u, message |-> ""] : u \in {user, Fresh(user)} }
    \cup { [ok |-> FALSE, user |-> "", message |-> m] :
             m \in {"Token expired or invalid", "Failed to validate user token"} }

\* what authenticateWithGoogle(credential) settles with
AuthAnswers ==
    { [ok |-> TRUE, user |-> "alice", token |-> "T1", message |-> ""],
      [ok |-> TRUE, user |-> "bob", token |-> "T2", message |-> ""],
      [ok |-> FALSE, user |-> "", token |-> "", message |-> "Authentication failed"],
      [ok |-> FALSE, user |-> "", token |-> "",
       message |-> "Network error during authentication"] }

NoRevalidation ==
    [pc |-> "none", token |-> NoToken, user |-> Null, answer |-> NoMe]

NoLogin == [pc |-> "none", answer |-> NoAnswer, error |-> ""]

\* a logout() call: the token it notifies the server with (Null: no server
\* call), and loggedOut: logout() has run and since then login() was
\* neither called nor has a login() called earlier logged the user in
NoLogout == [pc |-> "none", token |-> Null, loggedOut |-> FALSE]

\* what the fetch of POST /auth/logout settles with
LogoutAnswers == {"ok", "rejected", "network error"}

\* a fetchWithAuth call: where it is, and the code of the error it threw
NoFetch == [pc |-> "none", error |-> ""]

\* response.status of the request fetchWithAuth sends
Statuses == {200, 401, 500}

\* React drops a state update of a component that is no longer mounted
SetState(next, current) == IF mounted THEN next ELSE current

setLoading_Stuck(state, loading) == [state EXCEPT !.isLoading = TRUE]

\* setLoading(loading) on the authoritative state
setLoading(state, loading) == updateAuthState(state, LoadingUpdate(loading))

AfterRevalidation_KeepStore(st, state, token, answer) ==
    IF answer.ok
       THEN [store |-> st,
             actualState |-> updateAuthState(state, All(LoggedIn(answer.user, token))),
             update |-> NoUpdate]
       ELSE [store |-> st,
             actualState |-> updateAuthState(state, All(LoggedOut)),
             update |-> All(LoggedOut)]

\* the async transition of initializeAuthState after getCurrentUser(token)
\* settles: the store and the authoritative state afterwards, and the
\* optimistic update issued
AfterRevalidation(st, state, token, answer) ==
    IF answer.ok
       THEN [store |-> st,
             actualState |-> updateAuthState(state, All(LoggedIn(answer.user, token))),
             update |-> NoUpdate]
       ELSE [store |-> clearAll(st),
             actualState |-> updateAuthState(state, All(LoggedOut)),
             update |-> All(LoggedOut)]

\* initializeAuthState() up to its return
Initialize(v) ==
    /\ mounted
    /\ reval[v].pc = "none"
    /\ LET storedAuthData == getAuthData(store) IN
       /\ store' = storedAuthData.store
       /\ IF storedAuthData.value = NoAuthData
             THEN /\ actualState' =
                        updateAuthState(actualState, LoadingUpdate(FALSE))
                  /\ reval' = [reval EXCEPT ![v].pc = "returned"]
                  /\ UNCHANGED optimisticUpdate
             ELSE /\ reval' = [reval EXCEPT ![v] =
                                 [pc |-> "pending",
                                  token |-> storedAuthData.value.token,
                                  user |-> storedAuthData.value.user,
                                  answer |-> NoMe]]
                  /\ optimisticUpdate' =
                        setOptimisticState(optimisticUpdate,
                            All(LoggedIn(storedAuthData.value.user,
                                         storedAuthData.value.token)))
                  /\ UNCHANGED actualState
    /\ UNCHANGED <<loginCall, reloads, logoutCall, mounted, protectedCall,
                   cb, beyondRc>>

\* getCurrentUser(token) settles and the async transition runs to its end
RevalidationSettled(v, answer) ==
    /\ reval[v].pc = "pending"
    /\ LET after == AfterRevalidation(store, actualState, reval[v].token, answer)
       IN  /\ store' = after.store
           /\ actualState' = SetState(after.actualState, actualState)
           /\ reval' = [reval EXCEPT ![v].pc = "settled", ![v].answer = answer]
           /\ optimisticUpdate' =
                 SetState(Revert(IF after.update = NoUpdate THEN optimisticUpdate
                                 ELSE setOptimisticState(optimisticUpdate,
                                                         after.update),
                                 reval'),
                          optimisticUpdate)
    /\ UNCHANGED <<loginCall, reloads, logoutCall, mounted, protectedCall,
                   cb, beyondRc>>

\* login(credential) up to the await of authenticateWithGoogle
LoginStart ==
    /\ mounted
    /\ loginCall.pc # "pending"
    /\ loginCall' = [pc |-> "pending", answer |-> NoAnswer, error |-> ""]
    /\ actualState' = setLoading(actualState, TRUE)
    /\ optimisticUpdate' =
          Revert(setOptimisticState(optimisticUpdate, LoadingUpdate(TRUE)), reval)
    /\ logoutCall' = [logoutCall EXCEPT !.loggedOut = FALSE]
    /\ UNCHANGED <<store, reval, reloads, mounted, protectedCall,
                   cb, beyondRc>>

\* authenticateWithGoogle settles and login() runs to its end: setLoggedIn
\* saves the session and sets both states, or the catch clause resets the
\* loading flag and rethrows
LoginSettled(answer, failAt) ==
    /\ loginCall.pc = "pending"
    /\ LET saved == saveAuthData(store, [user |-> answer.user,
                                         token |-> answer.token,
                                         expiresAt |-> NoExpiry], failAt)
       IN  IF answer.ok /\ saved.error = ""
              THEN /\ store' = saved.store
                   /\ actualState' =
                         SetState(updateAuthState(actualState,
                                      All(LoggedIn(answer.user, answer.token))),
                                  actualState)
                   /\ optimisticUpdate' =
                         SetState(Revert(setOptimisticState(optimisticUpdate,
                                      All(LoggedIn(answer.user, answer.token))),
                                      reval),
                                  optimisticUpdate)
                   /\ loginCall' = [pc |-> "resolved", answer |-> answer,
                                    error |-> ""]
                   /\ logoutCall' = [logoutCall EXCEPT !.loggedOut = FALSE]
              ELSE /\ store' = IF answer.ok THEN saved.store ELSE store
                   /\ actualState' =
                         SetState(setLoading(actualState, FALSE), actualState)
                   /\ optimisticUpdate' =
                         SetState(Revert(setOptimisticState(optimisticUpdate,
                                             LoadingUpdate(FALSE)), reval),
                                  optimisticUpdate)
                   /\ loginCall' = [pc |-> "rejected", answer |-> answer,
                                    error |-> IF answer.ok THEN saved.error
                                              ELSE answer.message]
                   /\ UNCHANGED logoutCall
    /\ UNCHANGED <<reval, reloads, mounted, protectedCall, cb, beyondRc>>

setLoggedOut_KeepStore(st, state, pending) ==
    [store |-> st,
     actualState |-> updateAuthState(state, All(LoggedOut)),
     update |-> setOptimisticState(pending, All(LoggedOut))]

\* setLoggedOut(): the store, the authoritative state and the pending
\* optimistic updates afterwards
setLoggedOut(st, state, pending) ==
    [store |-> clearAll(st),
     actualState |-> updateAuthState(state, All(LoggedOut)),
     update |-> setOptimisticState(pending, All(LoggedOut))]

\* logout() up to the await of logoutApi(currentToken), or to its end when
\* no token is held
Logout ==
    /\ mounted
    /\ logoutCall.pc # "pending"
    /\ LET currentToken == optimisticState.token
           after == setLoggedOut(store, actualState, optimisticUpdate)
       IN  /\ store' = after.store
           /\ actualState' = after.actualState
           /\ optimisticUpdate' = Revert(after.update, reval)
           /\ logoutCall' = [pc |-> IF currentToken # Null THEN "pending"
                                    ELSE "resolved",
                             token |-> currentToken,
                             loggedOut |-> TRUE]
    /\ UNCHANGED <<reval, loginCall, reloads, mounted, protectedCall,
                   cb, beyondRc>>

\* the fetch of authApiClient.logout(token) settles: a response that is not
\* OK makes it return, an error of the fetch is caught; logout() resolves
LogoutSettled(answer) ==
    /\ logoutCall.pc = "pending"
    /\ answer \in LogoutAnswers
    /\ logoutCall' = [logoutCall EXCEPT !.pc = "resolved"]
    /\ UNCHANGED <<actualState, optimisticUpdate, store, reval, loginCall,
                   reloads, mounted, protectedCall,
                   cb, beyondRc>>

\* fetchWithAuth(endpoint) up to the await of fetch, or to its throw when
\* no token is stored
FetchWithAuth ==
    /\ mounted
    /\ protectedCall.pc # "pending"
    /\ protectedCall' =
          IF getToken(store) = Null
             THEN [pc |-> "thrown", error |-> "AUTH_REQUIRED"]
             ELSE [pc |-> "pending", error |-> ""]
    /\ UNCHANGED <<actualState, optimisticUpdate, store, reval, loginCall,
                   reloads, logoutCall, mounted, cb, beyondRc>>

\* fetchWithAuth from the response to its return or throw: the store, the
\* authoritative state and the pending optimistic updates afterwards, and
\* the code of the error thrown
fetchWithAuthResponse(st, state, pending, status) ==
    IF status = 401
       THEN [store |-> clearAll(st), actualState |-> state, update |-> pending,
             error |-> "SESSION_EXPIRED"]
       ELSE [store |-> st, actualState |-> state, update |-> pending, error |-> ""]

\* the request of fetchWithAuth is answered
FetchSettled(status) ==
    /\ protectedCall.pc = "pending"
    /\ LET after == fetchWithAuthResponse(store, actualState, optimisticUpdate,
                                          status)
       IN  /\ store' = after.store
           /\ actualState' = after.actualState
           /\ optimisticUpdate' = after.update
           /\ protectedCall' = [pc |-> IF after.error = "" THEN "returned"
                                       ELSE "thrown",
                                error |-> after.error]
    /\ UNCHANGED <<reval, loginCall, reloads, logoutCall, mounted, cb, beyondRc>>

\* the AuthProvider is unmounted; what it awaits stays in flight, since
\* neither the mount effect nor login() or logout() has a cleanup
Unmount ==
    /\ mounted
    /\ mounted' = FALSE
    /\ UNCHANGED <<actualState, optimisticUpdate, store, reval, loginCall,
                   reloads, logoutCall, protectedCall, cb, beyondRc>>

\* the page is reloaded: the React state starts over and what was pending
\* is gone; localStorage and sessionStorage stay
Reload ==
    /\ reloads < MaxReloads
    /\ reloads' = reloads + 1
    /\ actualState' = InitialAuthState
    /\ optimisticUpdate' = NoUpdate
    /\ reval' = [v \in Revalidations |-> NoRevalidation]
    /\ loginCall' = NoLogin
    /\ logoutCall' = NoLogout
    /\ mounted' = TRUE
    /\ protectedCall' = NoFetch
    /\ cb' = [i \in Invocations |-> IdleInvocation]
    /\ UNCHANGED <<store, beyondRc>>

(***************************************************************************)
(* PKCE helpers (utils/pkce).  A string is the sequence of its pieces:     *)
(* single characters, or words of characters that no encoding touches.     *)
(* Bytes are numbers 0..255.                                               *)
(***************************************************************************)
Alphabet ==
    <<"A", "B", "C", "D", "E", "F", "G", "H", "I", "J", "K", "L", "M",
      "N", "O", "P", "Q", "R", "S", "T", "U", "V", "W", "X", "Y", "Z",
      "a", "b", "c", "d", "e", "f", "g", "h", "i", "j", "k", "l", "m",
      "n", "o", "p", "q", "r", "s", "t", "u", "v", "w", "x", "y", "z",
      "0", "1", "2", "3", "4", "5", "6", "7", "8", "9", "+", "/">>

\* btoa(bin): standard base64 with = padding
btoa(bytes) ==
    LET n == Len(bytes)
        at(k) == IF k <= n THEN bytes[k] ELSE 0
        char(g, j) ==
            LET b1 == at(3 * g - 2)
                b2 == at(3 * g - 1)
                b3 == at(3 * g)
            IN  CASE j = 1 -> Alphabet[(b1 \div 4) + 1]
                  [] j = 2 -> Alphabet[((b1 % 4) * 16 + (b2 \div 16)) + 1]
                  [] j = 3 -> IF 3 * g - 1 <= n
                                 THEN Alphabet[((b2 % 16) * 4 + (b3 \div 64)) + 1]
                                 ELSE "="
                  [] j = 4 -> IF 3 * g <= n THEN Alphabet[(b3 % 64) + 1] ELSE "="
    IN  [k \in 1..(4 * ((n + 2) \div 3)) |->
            char(((k - 1) \div 4) + 1, ((k - 1) % 4) + 1)]

\* b64.replace(/=+$/g, '')
StripPadding(b64) ==
    LET last == CHOOSE m \in 0..Len(b64) :
                    /\ m = 0 \/ b64[m] # "="
                    /\ \A k \in (m + 1)..Len(b64) : b64[k] = "="
    IN  SubSeq(b64, 1, last)

\* base64Url(bytes)
base64Url(bytes) ==
    LET b64 == btoa(bytes)
        urlSafe == [k \in DOMAIN b64 |->
                       CASE b64[k] = "+" -> "-"
                         [] b64[k] = "/" -> "_"
                         [] OTHER -> b64[k]]
    IN  StripPadding(urlSafe)

\* the char code of a character of a base64url string
CharCode(ch) ==
    LET k == CHOOSE j \in 1..64 : Alphabet[j] = ch
    IN  CASE ch = "-" -> 45
          [] ch = "_" -> 95
          [] ch = "=" -> 61
          [] k <= 26 -> 64 + k
          [] k <= 52 -> 96 + (k - 26)
          [] k <= 62 -> 47 + (k - 52)
          [] k = 63 -> 43
          [] OTHER -> 47

\* new TextEncoder().encode(str), for a string of ASCII characters
TextEncoderEncode(str) == [k \in DOMAIN str |-> CharCode(str[k])]

DigestLength == 256 \div 8     \* bytes of a SHA-256 digest

\* crypto.subtle.digest('SHA-256', message): the platform's hash function,
\* stood for by a function that like it maps any message to 32 bytes and
\* is determined by the message
SHA256(message) ==
    LET sum[k \in 0..Len(message)] ==
            IF k = 0 THEN 7 ELSE (sum[k - 1] * 31 + message[k] + k) % 65521
    IN  [i \in 1..DigestLength |-> ((sum[Len(message)] + 1) * (2 * i + 1) + i * i) % 256]

VerifierBytes == 32     \* new Uint8Array(32)

\* values crypto.getRandomValues fills the array with
RandomValues ==
    { [i \in 1..VerifierBytes |-> 0],
      [i \in 1..VerifierBytes |-> 255],
      [i \in 1..VerifierBytes |-> <<251, 239, 190>>[((i - 1) % 3) + 1]],
      [i \in 1..VerifierBytes |-> (i * 37 + 11) % 256],
      [i \in 1..VerifierBytes |-> (i * i * 101 + 3 * i) % 256],
      [i \in 1..VerifierBytes |-> (255 - 7 * i) % 256] }

generatePkcePair_Plain(random) ==
    [random |-> random, verifier |-> base64Url(random),
     challenge |-> base64Url(random)]

\* generatePkcePair() when getRandomValues yields random
generatePkcePair(random) ==
    LET verifier == base64Url(random)
        digest == SHA256(TextEncoderEncode(verifier))
    IN  [random |-> random, verifier |-> verifier, challenge |-> base64Url(digest)]

\* URLSearchParams serialises a value: a space becomes +, and the
\* characters that would end the value or are reserved are percent-encoded
UrlEncode(value) ==
    LET piece(c) ==
            CASE c = " " -> <<"+">>
              [] c = "&" -> <<"%", "2", "6">>
              [] c = "=" -> <<"%", "3", "D">>
              [] c = "+" -> <<"%", "2", "B">>
              [] c = ":" -> <<"%", "3", "A">>
              [] c = "/" -> <<"%", "2", "F">>
              [] c = "?" -> <<"%", "3", "F">>
              [] c = "#" -> <<"%", "2", "3">>
              [] c = "%" -> <<"%", "2", "5">>
              [] OTHER -> <<c>>
        out[k \in 0..Len(value)] ==
            IF k = 0 THEN <<>> ELSE out[k - 1] \o piece(value[k])
    IN  out[Len(value)]

\* new URLSearchParams({...}).toString()
ParamsToString(params) ==
    LET out[k \in 0..Len(params)] ==
            IF k = 0 THEN <<>>
            ELSE out[k - 1] \o (IF k = 1 THEN <<>> ELSE <<"&">>)
                 \o <<params[k][1], "=">> \o UrlEncode(params[k][2])
    IN  out[Len(params)]

AuthorizationEndpoint == "https://accounts.google.com/o/oauth2/v2/auth"

DefaultState == <<"login">>
DefaultScope == <<"openid", " ", "email", " ", "profile">>
DefaultPrompt == <<"consent">>
Omitted == <<>>     \* an optional parameter left out (undefined)

\* buildAuthorizationUrl({clientId, redirectUri, codeChallenge, state, scope,
\* prompt}): the URL as its endpoint and its query string
buildAuthorizationUrl(p) ==
    LET state == IF p.state = Omitted THEN DefaultState ELSE p.state
        scope == IF p.scope = Omitted THEN DefaultScope ELSE p.scope
        prompt == IF p.prompt = Omitted THEN DefaultPrompt ELSE p.prompt
        params == << <<"client_id", p.clientId>>,
                     <<"redirect_uri", p.redirectUri>>,
                     <<"response_type", <<"code">> >>,
                     <<"scope", scope>>,
                     <<"state", state>>,
                     <<"code_challenge", p.codeChallenge>>,
                     <<"code_challenge_method", <<"S256">> >>,
                     <<"prompt", prompt>> >>
    IN  [endpoint |-> AuthorizationEndpoint, query |-> ParamsToString(params)]

NoPair == [random |-> <<>>, verifier |-> <<>>, challenge |-> <<>>]

NoAuthorizationUrl == [endpoint |-> "", query |-> <<>>]

NoPkce == [pair |-> NoPair, url |-> NoAuthorizationUrl]

\* inputs of buildAuthorizationUrl besides the code challenge
ClientIdParams == { <<"client-1">>, <<"client", "&", "code_challenge_method", "=", "plain">> }
RedirectUriParams ==
    { <<"https", ":", "/", "/", "app.example", "/", "auth", "/", "callback">>,
      <<"http", ":", "/", "/", "localhost", "/", "auth", "/", "callback", "?",
        "code_challenge_method", "=", "plain">> }
StateParams == { Omitted, <<"login">>,
                 <<"x", "&", "code_challenge_method", "=", "plain">> }
ScopeParams == { Omitted, <<"openid">> }
PromptParams == { Omitted, <<"none">> }

\* generatePkcePair() is called
GeneratePkcePair(random) ==
    /\ pkce' = [pkce EXCEPT !.pair = generatePkcePair(random)]
    /\ UNCHANGED beyondPk

\* buildAuthorizationUrl is called with the challenge of the pair generated
BuildAuthorizationUrl(clientId, redirectUri, state, scope, prompt) ==
    /\ pkce.pair # NoPair
    /\ pkce' = [pkce EXCEPT !.url =
                    buildAuthorizationUrl(
                        [clientId |-> clientId, redirectUri |-> redirectUri,
                         codeChallenge |-> pkce.pair.challenge,
                         state |-> state, scope |-> scope, prompt |-> prompt])]
    /\ UNCHANGED beyondPk

(***************************************************************************)
(* Specifications                                                          *)
(***************************************************************************)
IdleMw ==
    /\ now = 0
    /\ issued = {}
    /\ req = NoRequest

IdleEx ==
    /\ users = {}
    /\ clockMs = 0
    /\ ex = [p \in Requests |-> Idle]
    /\ sessions = {}
    /\ started = 0

IdleCb ==
    /\ sessionVerifier = NoVerifier
    /\ store = EmptyStore
    /\ cb = [i \in Invocations |-> IdleInvocation]
    /\ sent = <<>>
    /\ logins = 0

IdleSt ==
    /\ clientNow = 0
    /\ ret = NoReturn

IdleRc ==
    /\ actualState = InitialAuthState
    /\ optimisticUpdate = NoUpdate
    /\ reval = [v \in Revalidations |-> NoRevalidation]
    /\ loginCall = NoLogin
    /\ reloads = 0
    /\ logoutCall = NoLogout
    /\ mounted = TRUE
    /\ protectedCall = NoFetch

IdlePk == pkce = NoPkce

Init == IdleMw /\ IdleEx /\ IdleCb /\ IdleSt /\ IdleRc /\ IdlePk

\* the token service and the middlewares
NextMw == Tick \/ IssueToken \/ ProtectedRequest \/ OptionalRequest

SpecMw == Init /\ [][NextMw]_vars

\* the exchange endpoint
Steps(p) ==
    \/ \E answer \in TokenResponses : TokenResponse(p, answer)
    \/ \E info \in TokenInfos : TokenInfoResponse(p, info)
    \/ \E dbOk \in BOOLEAN : SelectDone(p, dbOk)
    \/ \E dbOk \in BOOLEAN : InsertDone(p, dbOk)

NextEx ==
    \/ \E p \in Requests, body \in Bodies : Receive(p, body)
    \/ \E p \in Requests : Steps(p)
    \/ TickMs

SpecEx == Init /\ [][NextEx]_vars

\* exchanges that do not overlap: a request is received only when no other
\* is in flight
ReceiveAlone(p, body) ==
    /\ \A q \in Requests : ~InFlight(ex[q])
    /\ Receive(p, body)

NextExSeq ==
    \/ \E p \in Requests, body \in Bodies : ReceiveAlone(p, body)
    \/ \E p \in Requests : Steps(p)
    \/ TickMs

SpecExSeq == Init /\ [][NextExSeq]_vars

\* the callback coordinator in the browser
NextCb ==
    \/ startPkceLogin
    \/ \E i \in Invocations, url \in Urls : CallbackInvoked(i, url)
    \/ \E i \in Invocations, answer \in ExchangeAnswers, failAt \in SaveFailures :
          ExchangeSettled(i, answer, failAt)

SpecCb == Init /\ [][NextCb]_vars

\* the Session Store driven through its four operations
NextStoreApi ==
    \/ \E data \in SaveData, failAt \in SaveFailures : Save(data, failAt)
    \/ Load
    \/ Clear
    \/ HasValidAuthData
    \/ IsTokenValid
    \/ TickClient

SpecStoreApi == Init /\ [][NextStoreApi]_vars

\* the Session Store with other code writing its keys as well
NextStore ==
    \/ NextStoreApi
    \/ \E key \in DOMAIN RawValues : \E raw \in RawValues[key] : Inject(key, raw)

SpecStore == Init /\ [][NextStore]_vars

\* the session reconciler
NextRc ==
    \/ \E v \in Revalidations : Initialize(v)
    \/ \E v \in Revalidations :
          \E answer \in MeAnswers(reval[v].user) : RevalidationSettled(v, answer)
    \/ LoginStart
    \/ \E answer \in AuthAnswers, failAt \in SaveFailures :
          LoginSettled(answer, failAt)
    \/ Logout
    \/ \E answer \in LogoutAnswers : LogoutSettled(answer)
    \/ Reload

SpecRc == Init /\ [][NextRc]_vars

\* the session reconciler when the mount effect runs and every who-am-I
\* request is answered or fails: React runs the effect of a mounted
\* component, and the fetch of getCurrentUser settles
SpecRcFair ==
    /\ SpecRc
    /\ WF_vars(\E v \in Revalidations : Initialize(v))
    /\ WF_vars(\E v \in Revalidations :
                  \E answer \in MeAnswers(reval[v].user) :
                      RevalidationSettled(v, answer))

\* the session reconciler on a page that sends protected requests
NextProtected ==
    \/ \E v \in Revalidations : Initialize(v)
    \/ \E v \in Revalidations :
          \E answer \in MeAnswers(reval[v].user) : RevalidationSettled(v, answer)
    \/ LoginStart
    \/ \E answer \in AuthAnswers, failAt \in SaveFailures :
          LoginSettled(answer, failAt)
    \/ Logout
    \/ \E answer \in LogoutAnswers : LogoutSettled(answer)
    \/ FetchWithAuth
    \/ \E status \in Statuses : FetchSettled(status)

SpecProtected == Init /\ [][NextProtected]_vars

\* initialize() and login() in a component tree that can be torn down while
\* the page stays
NextTeardown ==
    \/ \E v \in Revalidations : Initialize(v)
    \/ \E v \in Revalidations :
          \E answer \in MeAnswers(reval[v].user) : RevalidationSettled(v, answer)
    \/ LoginStart
    \/ \E answer \in AuthAnswers, failAt \in SaveFailures :
          LoginSettled(answer, failAt)
    \/ Unmount

SpecTeardown == Init /\ [][NextTeardown]_vars

\* the PKCE helpers
NextPk ==
    \/ \E random \in RandomValues : GeneratePkcePair(random)
    \/ \E clientId \in ClientIdParams, redirectUri \in RedirectUriParams,
          state \in StateParams, scope \in ScopeParams, prompt \in PromptParams :
          BuildAuthorizationUrl(clientId, redirectUri, state, scope, prompt)

SpecPk == Init /\ [][NextPk]_vars

\* all subsystems together; the claims are checked per subsystem, under the
\* specifications above
Next ==
    \/ NextMw \/ NextEx \/ NextCb \/ NextStore
    \/ NextRc \/ NextProtected \/ NextTeardown \/ NextPk

Spec == Init /\ [][Next]_vars

(***************************************************************************)
(* What "the bearer token verifies" means: a well-formed token, signed     *)
(* with the server secret, not expired; and with the standard claims.      *)
(***************************************************************************)
SignatureAndExpiryVerify(h, t) ==
    /\ StartsWithBearer(h)
    /\ h.token.form = "jwt"
    /\ h.token.sig = Sign(h.token.payload, JWT_SECRET)
    /\ h.token.payload.exp > t

Expired(h, t) ==
    /\ StartsWithBearer(h)
    /\ h.token.form = "jwt"
    /\ h.token.payload.exp <= t

StandardClaimsVerify(h) ==
    /\ h.token.payload.iss = Issuer
    /\ h.token.payload.aud = Audience

\* C1: behind authMiddleware the handler runs only for a bearer token whose
\* signature and expiry verify under the server secret; every other request
\* is answered 401 and the handler is never invoked.
C1_HandlerOnlyForVerifiedToken ==
    req.guard = "authMiddleware" =>
    /\ req.nextCalls > 0 => SignatureAndExpiryVerify(req.header, req.at)
    /\ ~SignatureAndExpiryVerify(req.header, req.at)
          => (req.status = 401 /\ req.nextCalls = 0)

\* C2: a token produced by generateJWT for user U, presented unexpired, is
\* accepted and the identity the handler reads has U's id and email.
C2_RoundTripIdentity ==
    (/\ req.guard = "authMiddleware"
     /\ req.header.token \in issued
     /\ SignatureAndExpiryVerify(req.header, req.at))
        => /\ req.nextCalls = 1
           /\ req.handlerUserId = req.header.token.payload.userId
           /\ req.handlerEmail = req.header.token.payload.email

\* C3: an expired token is rejected with 401 and the 'expired' reason; any
\* other verification failure is rejected with 401 and the 'invalid token'
\* reason.
C3_ExpiredDistinguished ==
    req.guard = "authMiddleware" =>
    /\ Expired(req.header, req.at)
          => (req.status = 401 /\ req.error = "Token has expired. Please login again.")
    /\ (StartsWithBearer(req.header) /\ req.header.token.form # "empty"
          /\ ~Expired(req.header, req.at)
          /\ ~SignatureAndExpiryVerify(req.header, req.at))
          => (req.status = 401 /\ req.error = "Invalid token. Please login again.")

\* C4: a correctly signed, unexpired token whose issuer or audience is not
\* the application's is answered 401 and the handler is not invoked.
C4_StandardClaimsChecked ==
    (/\ req.guard = "authMiddleware"
     /\ SignatureAndExpiryVerify(req.header, req.at)
     /\ ~StandardClaimsVerify(req.header))
        => (req.status = 401 /\ req.nextCalls = 0)

\* C5: optionalAuthMiddleware runs next exactly once for every request and
\* sets the request-scoped user only when the bearer token verifies.
C5_OptionalSetsUserOnlyWhenVerified ==
    req.guard = "optionalAuthMiddleware"
        => /\ req.nextCalls = 1
           /\ req.user # NoUser => SignatureAndExpiryVerify(req.header, req.at)

(***************************************************************************)
(* The exchange endpoint                                                   *)
(***************************************************************************)
\* p answered without reading or writing a user and without issuing a token
NoUserNoToken(r) ==
    /\ r.focCalls = 0
    /\ ~r.inserted
    /\ r.userId = ""
    /\ r.token = EmptyToken

\* C6: a validated request whose redirectUri matches none of the allow-list
\* patterns fails before any request is sent to the token endpoint, with the
\* generic failure, no user row created and no AppJwt issued.
C6_DisallowedRedirectFailsEarly ==
    \A p \in Requests :
        (/\ ex[p].pc # "idle"
         /\ ValidateBody(ex[p].body) = ""
         /\ ~AllowedRedirect(ex[p].body.redirectUri))
        => /\ ex[p].pc = "done"
           /\ ex[p].tokenCalls = 0
           /\ ex[p].status = 500
           /\ ex[p].error = "Code flow authentication failed"
           /\ NoUserNoToken(ex[p])

C6_Witness ==
    \E p \in Requests :
        /\ ex[p].pc = "done"
        /\ ex[p].body.redirectUri.sub = <<"e", "v", "i", "l", ".", "c", "o", "m", "/", ".">>
        /\ ex[p].status = 500
        /\ ex[p].thrown = "Invalid redirectUri"

\* C7: when the verified identity claims carry email_verified false, the
\* endpoint rejects the request; findOrCreateUser is not called and no AppJwt
\* is generated.
C7_UnverifiedEmailRejected ==
    \A p \in Requests :
        (/\ ex[p].info.ok
         /\ ex[p].info.aud = GOOGLE_CLIENT_ID
         /\ ex[p].info.email_verified \in {"bool:false", "str:false"})
        => /\ ex[p].pc = "done"
           /\ ex[p].status = 400
           /\ ex[p].error = "Email not verified by Google"
           /\ NoUserNoToken(ex[p])

C7_Witness ==
    \E p \in Requests :
        /\ ex[p].info.ok
        /\ ex[p].info.aud = GOOGLE_CLIENT_ID
        /\ ex[p].info.email_verified = "str:false"
        /\ ex[p].status = 400
        /\ ex[p].pc = "done"

\* C8: with exchanges that do not overlap, every successful exchange for an
\* email returns the same user id, the users table holds exactly one row for
\* that email, and an insert is sent only when no row with the email exists.
C8_IdempotentIdentity ==
    /\ \A s1 \in sessions, s2 \in sessions :
          s1.email = s2.email => s1.userId = s2.userId
    /\ \A s \in sessions :
          /\ Cardinality({ row \in users : row.email = s.email }) = 1
          /\ \E row \in users : row.email = s.email /\ row.id = s.userId
    /\ \A p \in Requests :
          ex[p].pc = "insert" => ~\E row \in users : row.email = ex[p].email

C8_Witness ==
    \E p \in Requests, q \in Requests :
        /\ p # q
        /\ ex[p].status = 200 /\ ex[p].inserted
        /\ ex[q].status = 200 /\ ex[q].found = "yes"
        /\ ex[p].email = ex[q].email
        /\ ex[p].userId = ex[q].userId

\* C9: two concurrent exchanges for the same unknown email whose reads both
\* return 'not found' both end successfully with the same user id.
C9_ConcurrentFirstLoginsBothSucceed ==
    \A p \in Requests, q \in Requests :
        (/\ p # q
         /\ ex[p].pc = "done" /\ ex[q].pc = "done"
         /\ ex[p].found = "no" /\ ex[q].found = "no"
         /\ ex[p].email = ex[q].email
         /\ ex[p].thrown # "database unavailable"
         /\ ex[q].thrown # "database unavailable")
        => /\ ex[p].status = 200 /\ ex[q].status = 200
           /\ ex[p].userId = ex[q].userId

(***************************************************************************)
(* The callback coordinator                                                *)
(***************************************************************************)
\* !code
CodeMissing(url) == url.code = Null \/ url.code = ""

\* C10: handleAuthCallback on a URL with no or an empty code returns the error
\* CODE_MISSING whatever the state parameter and the stashed verifier, sends
\* no exchange request and changes neither the Session Store nor the stashed
\* verifier.
C10_NoCodeIsCodeMissing ==
    [][\A i \in Invocations :
          (/\ cb[i].pc \in {"idle", "returned"}
           /\ cb'[i] # cb[i]
           /\ cb'[i].pc # "idle"
           /\ CodeMissing(cb'[i].url))
          => /\ cb'[i].pc = "returned"
             /\ ~cb'[i].result.ok
             /\ cb'[i].result.code = "CODE_MISSING"
             /\ sent' = sent
             /\ store' = store
             /\ sessionVerifier' = sessionVerifier]_vars

C10_Witness ==
    \E i \in Invocations :
        /\ cb[i].pc = "returned"
        /\ cb[i].url = [code |-> "", state |-> "other"]
        /\ cb[i].result.code = "CODE_MISSING"
        /\ sessionVerifier # NoVerifier
        /\ store.token # NoToken

\* a step in which handleAuthCallback is invoked in slot i
Invoked(i) ==
    /\ cb[i].pc \in {"idle", "returned"}
    /\ cb'[i] # cb[i]
    /\ cb'[i].pc # "idle"

\* C11: handleAuthCallback on a URL with a code whose state parameter is
\* absent or is not "login" returns the error STATE_MISMATCH, whether or not
\* a verifier is stashed, and sends no exchange request.
C11_StateMismatch ==
    [][\A i \in Invocations :
          (/\ Invoked(i)
           /\ ~CodeMissing(cb'[i].url)
           /\ cb'[i].url.state # "login")
          => /\ cb'[i].pc = "returned"
             /\ ~cb'[i].result.ok
             /\ cb'[i].result.code = "STATE_MISMATCH"
             /\ sent' = sent]_vars

C11_Witness ==
    \E i \in Invocations, j \in Invocations :
        /\ cb[i].pc = "returned"
        /\ cb[i].url = [code |-> "c1", state |-> Null]
        /\ cb[i].result.code = "STATE_MISMATCH"
        /\ cb[j].pc = "returned"
        /\ cb[j].url = [code |-> "c1", state |-> "other"]
        /\ cb[j].result.code = "STATE_MISMATCH"
        /\ sessionVerifier # NoVerifier

\* C12: handleAuthCallback on a URL with a code and state "login" when no
\* verifier is stashed returns the error PKCE_VERIFIER_MISSING and sends no
\* exchange request; an exchange request is sent only by an invocation
\* whose URL has a code and state "login" while a verifier is stashed, and
\* it carries that code and that verifier.
C12_VerifierMissing ==
    [][/\ \A i \in Invocations :
             (/\ Invoked(i)
              /\ ~CodeMissing(cb'[i].url)
              /\ cb'[i].url.state = "login"
              /\ sessionVerifier = NoVerifier)
             => /\ cb'[i].pc = "returned"
                /\ ~cb'[i].result.ok
                /\ cb'[i].result.code = "PKCE_VERIFIER_MISSING"
                /\ sent' = sent
       /\ sent' # sent
             => \E i \in Invocations :
                   /\ Invoked(i)
                   /\ ~CodeMissing(cb'[i].url)
                   /\ cb'[i].url.state = "login"
                   /\ sessionVerifier # NoVerifier
                   /\ sent' = Append(sent, [code |-> cb'[i].url.code,
                                            codeVerifier |-> sessionVerifier])
      ]_vars

C12_Witness ==
    \E i \in Invocations :
        /\ cb[i].pc = "returned"
        /\ cb[i].url = [code |-> "c1", state |-> "login"]
        /\ cb[i].result.code = "PKCE_VERIFIER_MISSING"
        /\ sessionVerifier = NoVerifier
        /\ Len(sent) > 0

\* the session an exchange answer carries
SessionOf(answer) ==
    [token |-> answer.token, user |-> answer.user, expiresAt |-> NoExpiry]

\* C13: when the exchange call of an invocation succeeds, the invocation
\* returns ok exactly when the returned {user, token} has been persisted;
\* on returning ok getAuthData() yields exactly the returned user and token
\* (and has nothing to repair) and no verifier is stashed; the verifier is
\* removed only after the session has been persisted: when persisting fails
\* the stashed verifier is still there.
C13_SuccessPersistsThenClears ==
    [][\A i \in Invocations :
          (/\ cb[i].pc = "exchange"
           /\ cb'[i].pc = "returned"
           /\ cb'[i].answer.ok)
          => /\ cb'[i].result.ok
                  <=> getAuthData(store').value = SessionOf(cb'[i].answer)
             /\ cb'[i].result.ok
                  => /\ cb'[i].result = Ok
                     /\ getAuthData(store').store = store'
                     /\ sessionVerifier' = NoVerifier
             /\ ~cb'[i].result.ok => sessionVerifier' = sessionVerifier]_vars

C13_Witness ==
    \E i \in Invocations :
        /\ cb[i].pc = "returned"
        /\ cb[i].answer.ok
        /\ cb[i].result = Ok
        /\ getAuthData(store).value = SessionOf(cb[i].answer)
        /\ sessionVerifier = NoVerifier

\* the codes handleAuthCallback reports
ResultCodes ==
    {"CODE_MISSING", "STATE_MISMATCH", "PKCE_VERIFIER_MISSING",
     "CODE_EXCHANGE_FAILED"}

\* the errors saveToken and saveUser throw
SaveErrors ==
    {"Failed to save authentication token", "Failed to save user information"}

HoldsUser(st) == \E u \in Users : st.user = JSONstringify(u)

\* a token without a valid user, or a user without a token
Partial(st) == (st.token # NoToken) # HoldsUser(st)

\* C15: getAuthData() on a store that holds a token without a valid user, or
\* a user without a token, returns null and leaves none of the token, user
\* and expiry keys behind.  (User data that is no User, stored without a
\* token, is not such a record: getUser removes it and the expiry key stays.)
C15_PartialRecordIsCleared ==
    (ret.op = "getAuthData" /\ Partial(ret.before))
    => /\ ret.data = NoAuthData
       /\ store = EmptyStore

C15_Witness ==
    /\ ret.op = "getAuthData"
    /\ ret.before.token = "T1"
    /\ ret.before.user = "{oops"
    /\ ret.before.expiresAt = "1"
    /\ store = EmptyStore

\* the token and the user of one save
SameSave(st) ==
    \E data \in SaveData :
        st.token = data.token /\ st.user = JSONstringify(data.user)

\* C16: from an empty store, after any sequence of saveAuthData (failing
\* ones included), getAuthData, clearAll, hasValidAuthData and isTokenValid,
\* the store holds a token and a user written by the same save, or neither
\* a token nor a user.
C16_TokenAndUserTogether ==
    \/ store.token = NoToken /\ store.user = NoUserData
    \/ SameSave(store)

C16_Witness ==
    /\ ret.op = "saveAuthData"
    /\ ret.error = "Failed to save user information"
    /\ SameSave(ret.before)
    /\ ret.before.token # ret.data.token
    /\ store = EmptyStore

\* the stored expiry is at or before t
ExpiredAt(st, t) ==
    st.expiresAt # NoExpiryKey /\ parseInt(st.expiresAt) <= t

\* C17: hasValid() (hasValidAuthData, isTokenValid) returns false and clears
\* the stored record whenever the stored expiry is at or before the current
\* time; it returns true exactly when a complete record is stored whose
\* expiry is absent or in the future.
C17_HasValidChecksExpiry ==
    ret.op \in {"hasValidAuthData", "isTokenValid"}
    => /\ ExpiredAt(ret.before, ret.at) => (~ret.ok /\ store = EmptyStore)
       /\ ret.ok <=> (SameSave(ret.before) /\ ~ExpiredAt(ret.before, ret.at))

(***************************************************************************)
(* The session reconciler                                                  *)
(***************************************************************************)
\* the complete session the store holds, if any
StoredSession(st) ==
    \E u \in Users : st.token # NoToken /\ st.user = JSONstringify(u)

\* C18: when initialize() finds a complete stored session, at its return,
\* with the who-am-I request still unanswered, the optimistic state reports
\* isAuthenticated = true with the stored user and token and isLoading =
\* false.
C18_OptimisticBeforeRevalidation ==
    [][\A v \in Revalidations :
          (reval[v].pc = "none" /\ reval'[v].pc # "none" /\ StoredSession(store))
          => /\ reval'[v].pc = "pending"
             /\ reval'[v].answer = NoMe
             /\ optimisticState'.isAuthenticated
             /\ ~optimisticState'.isLoading
             /\ optimisticState'.token = store.token
             /\ JSONstringify(optimisticState'.user) = store.user]_vars

C18_Witness ==
    \E v \in Revalidations :
        /\ reval[v].pc = "pending"
        /\ \A w \in Revalidations \ {v} : reval[w].pc = "none"
        /\ loginCall.pc = "none"
        /\ actualState = InitialAuthState
        /\ optimisticState = LoggedIn("alice", "T1")

\* the state is as initialize() in slot v left it: nothing else has been
\* called since the page was loaded
OnlyInitialized(v) ==
    /\ reval[v].pc = "pending"
    /\ \A w \in Revalidations \ {v} : reval[w].pc = "none"
    /\ loginCall.pc = "none"
    /\ actualState = InitialAuthState
    /\ store.token = reval[v].token
    /\ store.user = JSONstringify(reval[v].user)

\* C19: when the revalidation settles after initialize() found a stored
\* session and nothing else was called in between: if the who-am-I call
\* succeeded, the authoritative and the optimistic state are both
\* authenticated with the user the server returned and the stored token,
\* and the store is as it was; if it failed, the store is cleared and both
\* states are unauthenticated with user and token null.
C19_RevalidationDecides ==
    [][\A v \in Revalidations :
          (OnlyInitialized(v) /\ reval'[v].pc = "settled")
          => IF reval'[v].answer.ok
                THEN /\ actualState' = LoggedIn(reval'[v].answer.user, store.token)
                     /\ optimisticState' = actualState'
                     /\ store' = store
                ELSE /\ store' = EmptyStore
                     /\ actualState' = LoggedOut
                     /\ optimisticState' = LoggedOut]_vars

C19_Witness ==
    \E v \in Revalidations :
        /\ reval[v].pc = "settled"
        /\ reval[v].answer.ok
        /\ reval[v].answer.user = Fresh(reval[v].user)
        /\ \A w \in Revalidations \ {v} : reval[w].pc = "none"
        /\ loginCall.pc = "none"
        /\ optimisticState = LoggedIn(Fresh("alice"), "T1")
        /\ store.token = "T1"

\* user, token and isAuthenticated
Identity(state) ==
    [user |-> state.user, token |-> state.token,
     isAuthenticated |-> state.isAuthenticated]

\* C20: when the authentication call of login() fails, login() resets the
\* loading flag to false in both states and rethrows the error; neither
\* its start nor its failure changes user, token, isAuthenticated of
\* either state or the contents of the store.
C20_FailedLoginChangesNothing ==
    [][/\ (loginCall.pc # "pending" /\ loginCall'.pc = "pending")
             => /\ Identity(actualState') = Identity(actualState)
                /\ Identity(optimisticState') = Identity(optimisticState)
                /\ store' = store
       /\ (loginCall.pc = "pending" /\ loginCall'.pc \in {"resolved", "rejected"}
              /\ ~loginCall'.answer.ok)
             => /\ loginCall'.pc = "rejected"
                /\ loginCall'.error = loginCall'.answer.message
                /\ ~actualState'.isLoading
                /\ ~optimisticState'.isLoading
                /\ Identity(actualState') = Identity(actualState)
                /\ Identity(optimisticState') = Identity(optimisticState)
                /\ store' = store]_vars

C20_Witness ==
    /\ loginCall.pc = "rejected"
    /\ loginCall.error = "Authentication failed"
    /\ ActionPending(reval)
    /\ optimisticState.isAuthenticated
    /\ ~actualState.isAuthenticated
    /\ store.token = "T1"

(***************************************************************************)
(* C21 - C30: logout, PKCE, and the reconciler under interleavings         *)
(***************************************************************************)
\* a step of logout() up to the server call
LogoutStep ==
    /\ logoutCall.pc # "pending"
    /\ logoutCall' # logoutCall
    /\ logoutCall'.loggedOut

Sextet(ch) ==
    CASE ch = "-" -> 62
      [] ch = "_" -> 63
      [] OTHER -> (CHOOSE j \in 1..62 : Alphabet[j] = ch) - 1

Base64UrlChars == {"-", "_"} \cup {Alphabet[j] : j \in 1..62}

\* the bytes an unpadded base64url string decodes to
FromBase64Url(str) ==
    LET byte(j) ==
            LET bit == 8 * (j - 1)
                s == (bit \div 6) + 1
            IN  CASE bit % 6 = 0 ->
                       Sextet(str[s]) * 4 + (Sextet(str[s + 1]) \div 16)
                  [] bit % 6 = 2 ->
                       (Sextet(str[s]) % 16) * 16 + (Sextet(str[s + 1]) \div 4)
                  [] bit % 6 = 4 ->
                       (Sextet(str[s]) % 4) * 64 + Sextet(str[s + 1])
    IN  [j \in 1..((Len(str) * 6) \div 8) |-> byte(j)]

\* str is the unpadded base64url encoding of bytes
IsBase64UrlOf(str, bytes) ==
    /\ \A k \in DOMAIN str : str[k] \in Base64UrlChars
    /\ Len(str) = (Len(bytes) * 8 + 5) \div 6
    /\ FromBase64Url(str) = bytes

\* the places of a query string where the parameter named key starts
ParamsNamed(query, key) ==
    { k \in DOMAIN query :
        /\ query[k] = key
        /\ k = 1 \/ query[k - 1] = "&"
        /\ k < Len(query) /\ query[k + 1] = "=" }

\* the value of the parameter that starts at place k
ValueAt(query, k) ==
    LET end == CHOOSE m \in (k + 1)..Len(query) :
                   /\ m = Len(query) \/ query[m + 1] = "&"
                   /\ \A j \in (k + 2)..m : query[j] # "&"
    IN  SubSeq(query, k + 2, end)

\* C22: every pair generatePkcePair returns has a verifier that is the
\* unpadded base64url encoding of the 32 random bytes (43 characters, within
\* the PKCE range 43..128) and a challenge that is the unpadded base64url
\* encoding of SHA-256 of the verifier's bytes; and every authorization URL
\* built carries code_challenge_method=S256, once, whatever the inputs.
C22_ChallengeIsS256OfVerifier ==
    /\ pkce.pair # NoPair =>
          /\ Len(pkce.pair.random) = 32
          /\ IsBase64UrlOf(pkce.pair.verifier, pkce.pair.random)
          /\ Len(pkce.pair.verifier) = 43
          /\ Len(pkce.pair.verifier) \in 43..128
          /\ IsBase64UrlOf(pkce.pair.challenge,
                           SHA256(TextEncoderEncode(pkce.pair.verifier)))
    /\ pkce.url # NoAuthorizationUrl =>
          /\ Cardinality(ParamsNamed(pkce.url.query, "code_challenge_method")) = 1
          /\ \A k \in ParamsNamed(pkce.url.query, "code_challenge_method") :
                ValueAt(pkce.url.query, k) = <<"S256">>

\* a pair whose verifier holds both URL-safe replacement characters was
\* generated, and a URL was built from inputs that name the method parameter
\* themselves
C22_Witness ==
    /\ \E k \in DOMAIN pkce.pair.verifier : pkce.pair.verifier[k] = "_"
    /\ pkce.url # NoAuthorizationUrl
    /\ \E k \in DOMAIN pkce.url.query :
          /\ pkce.url.query[k] = "code_challenge_method"
          /\ k \notin ParamsNamed(pkce.url.query, "code_challenge_method")

\* C23: a stashed PKCE verifier is single-use: once an invocation of
\* handleAuthCallback has sent it in an exchange request and returned, it is
\* no longer in session storage, whether the exchange succeeded or failed;
\* and no verifier is sent in two exchange requests.
C23_VerifierSingleUse ==
    /\ \A i \in Invocations :
          cb[i].pc = "returned" /\ cb[i].verifier # NoVerifier =>
              sessionVerifier # cb[i].verifier
    /\ \A m, n \in DOMAIN sent :
          m # n => sent[m].codeVerifier # sent[n].codeVerifier

\* C24: whatever optimistic updates were issued while a revalidation was
\* pending, once its result is applied the optimistic state equals the
\* authoritative state in user, token and isAuthenticated: no optimistic
\* value issued before the result remains visible.
C24_RevalidationSupersedes ==
    [][\A v \in Revalidations :
          (reval[v].pc = "pending" /\ reval'[v].pc = "settled")
          => Identity(optimisticState') = Identity(actualState')]_vars

\* C25: once the component driving initialize() or login() is torn down,
\* the late result of the asynchronous step is discarded: no state update
\* is applied and the Session Store is neither written nor cleared.
C25_LateResultDiscarded ==
    [][(~mounted /\ ~mounted')
          => UNCHANGED <<actualState, optimisticUpdate, store>>]_vars

\* no revalidation, login or logout is in flight
Quiescent ==
    /\ \A v \in Revalidations : reval[v].pc # "pending"
    /\ loginCall.pc # "pending"
    /\ logoutCall.pc # "pending"

\* C26: whenever no revalidation, login or logout is in flight, the
\* reconciler reports isAuthenticated = true exactly when the Session Store
\* holds a complete session, and then with the stored token; in particular
\* once a protected request was answered 401, which destroys the stored
\* session, the state is unauthenticated as well.
C26_AuthenticatedIffStored ==
    Quiescent =>
        /\ optimisticState.isAuthenticated <=> StoredSession(store)
        /\ optimisticState.isAuthenticated => optimisticState.token = store.token
        /\ protectedCall.error = "SESSION_EXPIRED" /\ store = EmptyStore
              => ~optimisticState.isAuthenticated

\* C27: once logout() has set the client to logged out, and until the next
\* login, isAuthenticated stays false and token stays null in both states:
\* the result of a revalidation that initialize() started before the
\* logout, also a successful one, does not make the reconciler
\* authenticated again.
C27_LogoutOutlivesRevalidation ==
    logoutCall.loggedOut =>
        /\ ~actualState.isAuthenticated /\ actualState.token = Null
        /\ ~optimisticState.isAuthenticated /\ optimisticState.token = Null

\* C28: a failed revalidation clears only the session it validated: when a
\* login() completed while the revalidation of token T was in flight and
\* stored a session with another token, the late failure for T leaves the
\* Session Store as it is and the reconciler authenticated.
C28_LateFailureSparesNewerSession ==
    [][\A v \in Revalidations :
          (/\ reval[v].pc = "pending" /\ reval'[v].pc = "settled"
           /\ ~reval'[v].answer.ok
           /\ loginCall.pc = "resolved"
           /\ store.token = loginCall.answer.token
           /\ store.token # reval[v].token)
          => /\ store' = store
             /\ actualState'.isAuthenticated
             /\ optimisticState'.isAuthenticated
             /\ actualState'.token = store.token]_vars

\* C29: whatever the store held before, getAuthData() right after a
\* successful saveAuthData(s) returns exactly s: the same token, the same
\* user, and the expiry of s, none when s has none; an expiry left by an
\* earlier session is not attached to a session saved without one.
C29_SaveLoadRoundTrip ==
    [][(/\ ret.op = "saveAuthData" /\ ret.ok
        /\ ret'.op = "getAuthData")
          => /\ ret'.ok
             /\ ret'.data.token = ret.data.token
             /\ ret'.data.user = ret.data.user
             /\ ret'.data.expiresAt = ret.data.expiresAt]_vars

\* C30: the initial loading state is never permanent: from every state in
\* which the authoritative state is loading and no login() is in flight -
\* before initialize() has run, or while its who-am-I request is pending -
\* isLoading eventually becomes false in the authoritative state, whether
\* no session is stored, the revalidation succeeds or it fails, provided
\* the who-am-I request eventually resolves or rejects.
C30_LoadingEnds ==
    (actualState.isLoading /\ loginCall.pc # "pending")
        ~> ~actualState.isLoading

\* initialize() found a stored session, its revalidation failed, and the
\* authoritative state is no longer loading
C30_Witness ==
    \E v \in Revalidations :
        /\ reval[v].pc = "settled"
        /\ ~reval[v].answer.ok
        /\ \A w \in Revalidations \ {v} : reval[w].pc = "none"
        /\ loginCall.pc = "none"
        /\ ~actualState.isLoading

====
